---- MODULE Spec2Model ----
(***************************************************************************)
(* Model of toolcalling/groq_weather_app.py: the weather lookup            *)
(* get_current_weather and the interactive tool-calling loop.              *)
(*                                                                         *)
(* Representation of Python values:                                        *)
(*   str    a sequence of text chunks; concatenation (f-strings) is \o.    *)
(*          An input line is a sequence of one-character chunks so that    *)
(*          str.lower() can be computed character by character.            *)
(*   dict   a function from keys (strings) to values; a missing key is a   *)
(*          key outside DOMAIN.                                            *)
(*   list   a sequence.                                                    *)
(*   JSON object text  also carries keys, the order of the object's keys,  *)
(*          which the dict parsed from it keeps.                           *)
(*   JSON text  [wellformed, type, value]: json.loads raises on a text     *)
(*          that is not well formed and returns value otherwise.           *)
(* Values whose Python type matters to the code (the geocoder's JSON body, *)
(* the weather payload's cod) carry the type: [type |-> ..., v |-> ...].   *)
(***************************************************************************)
EXTENDS Integers, Sequences, FiniteSets, TLC

\* Number of input() calls explored.
MaxTurns == 3

VARIABLES
    pc,               \* position of the script: "input", "llm1", "geocode", "weather", "llm2", "terminated"
    user_query,       \* main: user_query
    groq_response,    \* main: response.choices[0].message
    args,             \* main: args
    location,         \* main: location (also the lookup's parameter once the call binds)
    geo_data,         \* get_current_weather: geo_data
    coords,           \* get_current_weather: lat, lon
    lookup_weather_data, \* get_current_weather: weather_data, the weather provider's body
    weather_data,     \* main: weather_data, the text returned by the lookup
    second_response,  \* main: second_response.choices[0].message
    calls,            \* outbound requests issued since the last input(), in order
    llm_messages,     \* messages= of the most recent chat request
    stdout,           \* lines printed since the last input() (since the start before the first), each tagged with the function printing it
    turns,            \* input() calls completed
    fail_streak       \* consecutive iterations that ended in the except clause of the loop

vars == <<pc, user_query, groq_response, args, location, geo_data, coords,
          lookup_weather_data, weather_data, second_response, calls, llm_messages,
          stdout, turns, fail_streak>>

\* the locals of get_current_weather
frame == <<geo_data, coords, lookup_weather_data>>

-----------------------------------------------------------------------------
(* Python helpers *)

\* dict.get(key, default)
Get(d, k, default) == IF k \in DOMAIN d THEN d[k] ELSE default

PyInt(n) == [type |-> "int", v |-> n]
PyStr(s) == [type |-> "str", v |-> s]
\* a float with an integral value: PyFloat(200) is 200.0
PyFloat(n) == [type |-> "float", v |-> n]
PyBool(b) == [type |-> "bool", v |-> b]
PyNone == [type |-> "NoneType", v |-> <<>>]

\* x == n for a Python value x and an int n: numbers compare by value
\* (200.0 == 200, True == 1), every other type is unequal to an int
PyEqInt(x, n) ==
    \/ x.type \in {"int", "float"} /\ x.v = n
    \/ x.type = "bool" /\ ((x.v /\ n = 1) \/ (~x.v /\ n = 0))

\* bool(x) of a JSON value: None, False, 0, 0.0, '', [] and {} are false
Truthy(x) ==
    CASE x.type \in {"list", "dict"} -> DOMAIN x.v # {}
      [] x.type = "str" -> Len(x.v) > 0
      [] x.type \in {"int", "float"} -> x.v # 0
      [] x.type = "bool" -> x.v
      [] x.type = "NoneType" -> FALSE

\* an exception object; str(e) is e.msg
Exc(cls, msg) == [cls |-> cls, msg |-> msg]

\* json.dumps of a dict
json_dumps(d) == [wellformed |-> TRUE, type |-> "dict", value |-> d]

\* json.loads succeeds exactly on well-formed text; on any other text it
\* raises JSONDecodeError with the decoder's message for that text
json_loads_raises(text) == ~text.wellformed
json_loads_error(text) == Exc("JSONDecodeError", text.error)
json_loads(text) == text.value

LowerOf == [A |-> "a", B |-> "b", C |-> "c", D |-> "d", E |-> "e", F |-> "f",
            G |-> "g", H |-> "h", I |-> "i", J |-> "j", K |-> "k", L |-> "l",
            M |-> "m", N |-> "n", O |-> "o", P |-> "p", Q |-> "q", R |-> "r",
            S |-> "s", T |-> "t", U |-> "u", V |-> "v", W |-> "w", X |-> "x",
            Y |-> "y", Z |-> "z"]

\* str.lower()
Lower(s) == [i \in DOMAIN s |-> IF s[i] \in DOMAIN LowerOf THEN LowerOf[s[i]] ELSE s[i]]

\* a line printed by the function `by`
Line(by, text) == [by |-> by, text |-> text]

\* str(KeyError(key)) is repr(key)
KeyErrorOf(key) == Exc("KeyError", <<"'", key, "'">>)

\* requests.exceptions.RequestException and its subclasses
RequestExceptions ==
    {"RequestException", "HTTPError", "ConnectionError", "ProxyError", "SSLError",
     "Timeout", "ConnectTimeout", "ReadTimeout", "URLRequired", "TooManyRedirects",
     "MissingSchema", "InvalidSchema", "InvalidURL", "InvalidProxyURL", "InvalidHeader",
     "ChunkedEncodingError", "ContentDecodingError", "StreamConsumedError",
     "RetryError", "UnrewindableBodyError", "InvalidJSONError",
     "requests.exceptions.JSONDecodeError"}

IsRequestException(e) == e.cls \in RequestExceptions
IsKeyError(e) == e.cls = "KeyError"
\* every exception class the model raises derives from Exception
IsException(e) == TRUE

-----------------------------------------------------------------------------
(* get_current_weather *)

\* outcome of a stretch of the try block
Returns(payload, log) == [kind |-> "return", payload |-> payload, log |-> log]
Raises(e) == [kind |-> "raise", exc |-> e]
Continues(lat, lon) == [kind |-> "continue", lat |-> lat, lon |-> lon]

NotFoundPayload(loc) ==
    [error |-> <<"Location '">> \o loc \o <<"' not found">>]

\* line 37, x[0] or x['lat'] on None, a number or a bool
NotSubscriptable(type) == Exc("TypeError", <<"'", type, "' object is not subscriptable">>)

\* line 37, x['lat'] on a str (geo_data[0] of a non-empty str is a str)
NotIndexable == Exc("TypeError", <<"string indices must be integers, not 'str'">>)

\* line 37, x['lat'] on a list
ListNotIndexable == Exc("TypeError", <<"list indices must be integers or slices, not str">>)

\* lines 37-38: geo_data[0]['lat'], geo_data[0]['lon'] on the first element
FirstMatch(first) ==
    IF first.type = "str" THEN Raises(NotIndexable)
    ELSE IF first.type = "list" THEN Raises(ListNotIndexable)
    ELSE IF first.type # "dict" THEN Raises(NotSubscriptable(first.type))
    ELSE IF "lat" \notin DOMAIN first.v THEN Raises(KeyErrorOf("lat"))
    ELSE IF "lon" \notin DOMAIN first.v THEN Raises(KeyErrorOf("lon"))
    ELSE Continues(first.v.lat, first.v.lon)

\* GeoBody falling back to default coordinates when nothing matches
GeoBody_DefaultCoords(loc, resp) ==
    IF resp.raises THEN Raises(resp.exc)
    ELSE LET gd == resp.json IN
         IF ~Truthy(gd) THEN Continues(0, 0)
         ELSE IF gd.type = "dict"
              THEN Raises(Exc("KeyError", <<"0">>))
              ELSE IF gd.type = "str"
              THEN Raises(NotIndexable)
              ELSE IF gd.type # "list"
              THEN Raises(NotSubscriptable(gd.type))
              ELSE FirstMatch(gd.v[1])

\* lines 27-38: the geocoding request up to the extraction of lat, lon
GeoBody(loc, resp) ==
    IF resp.raises THEN Raises(resp.exc)
    ELSE LET gd == resp.json IN
         IF ~Truthy(gd) THEN Returns(NotFoundPayload(loc), <<>>)
         ELSE IF gd.type = "dict"
              THEN Raises(Exc("KeyError", <<"0">>))
              ELSE IF gd.type = "str"
              THEN Raises(NotIndexable)
              ELSE IF gd.type # "list"
              THEN Raises(NotSubscriptable(gd.type))
              ELSE FirstMatch(gd.v[1])

\* line 46: weather_data.get('cod') != 200
CodIsError(wd) == ~PyEqInt(Get(wd, "cod", PyNone), 200)

\* ProviderErrorPayload reporting the transport status instead of the embedded cod
ProviderErrorPayload_TransportStatus(wd) ==
    [error |-> <<"Weather API error">>,
     message |-> Get(wd, "message", <<"Unknown error">>),
     status_code |-> PyInt(200)]

\* lines 47-53
ProviderErrorPayload(wd) ==
    [error |-> <<"Weather API error">>,
     message |-> Get(wd, "message", <<"Unknown error">>),
     status_code |-> Get(wd, "cod", PyNone)]

\* ProviderErrorLog without the print of line 48
ProviderErrorLog_Silent(wd) == <<>>

ProviderErrorLog(wd) ==
    <<Line("get_current_weather", <<"API Error: ">> \o Get(wd, "message", <<"Unknown error">>))>>

\* lines 56-65, in the order the subscripts are evaluated
ExtractWeather(loc, wd) ==
    IF "main" \notin DOMAIN wd THEN Raises(KeyErrorOf("main"))
    ELSE IF "temp" \notin DOMAIN wd.main THEN Raises(KeyErrorOf("temp"))
    ELSE IF "feels_like" \notin DOMAIN wd.main THEN Raises(KeyErrorOf("feels_like"))
    ELSE IF "humidity" \notin DOMAIN wd.main THEN Raises(KeyErrorOf("humidity"))
    ELSE IF "wind" \notin DOMAIN wd THEN Raises(KeyErrorOf("wind"))
    ELSE IF "speed" \notin DOMAIN wd.wind THEN Raises(KeyErrorOf("speed"))
    ELSE IF "weather" \notin DOMAIN wd THEN Raises(KeyErrorOf("weather"))
    ELSE IF Len(wd.weather) = 0 THEN Raises(Exc("IndexError", <<"list index out of range">>))
    ELSE IF "description" \notin DOMAIN wd.weather[1] THEN Raises(KeyErrorOf("description"))
    ELSE Returns([location |-> loc,
                  current |-> [temperature |-> wd.main.temp,
                               feels_like |-> wd.main.feels_like,
                               humidity |-> wd.main.humidity,
                               wind_speed |-> wd.wind.speed,
                               weather_description |-> wd.weather[1].description]],
                 <<>>)

\* lines 41-67: the weather request up to the return of the result
WeatherBody(loc, resp) ==
    IF resp.raises THEN Raises(resp.exc)
    ELSE LET wd == resp.json IN
         IF CodIsError(wd)
         THEN Returns(ProviderErrorPayload(wd), ProviderErrorLog(wd))
         ELSE ExtractWeather(loc, wd)

\* ExceptClauses without the final `except Exception`
ExceptClauses_NoCatchAll(e) ==
    IF IsRequestException(e)
    THEN Returns([error |-> <<"Network error">>, message |-> e.msg],
                 <<Line("get_current_weather", <<"Network error: ">> \o e.msg)>>)
    ELSE IF IsKeyError(e)
    THEN Returns([error |-> <<"Data parsing error">>,
                  message |-> <<"Missing field: ">> \o e.msg],
                 <<Line("get_current_weather", <<"Data error: ">> \o e.msg)>>)
    ELSE Raises(e)

\* lines 69-77: the except clauses, tried in order
ExceptClauses(e) ==
    IF IsRequestException(e)
    THEN Returns([error |-> <<"Network error">>, message |-> e.msg],
                 <<Line("get_current_weather", <<"Network error: ">> \o e.msg)>>)
    ELSE IF IsKeyError(e)
    THEN Returns([error |-> <<"Data parsing error">>,
                  message |-> <<"Missing field: ">> \o e.msg],
                 <<Line("get_current_weather", <<"Data error: ">> \o e.msg)>>)
    ELSE IF IsException(e)
    THEN Returns([error |-> <<"Unexpected error">>, message |-> e.msg],
                 <<Line("get_current_weather", <<"Unexpected error: ">> \o e.msg)>>)
    ELSE Raises(e)

\* the try statement applied to the outcome of a stretch of its body
Try(outcome) == IF outcome.kind = "raise" THEN ExceptClauses(outcome.exc) ELSE outcome

-----------------------------------------------------------------------------
(* The interactive loop *)

ExitCommands == {<<"e", "x", "i", "t">>, <<"q", "u", "i", "t">>, <<"b", "y", "e">>}

\* IsExitCommand comparing without lower()
IsExitCommand_CaseSensitive(line) == line \in ExitCommands

\* line 117: user_query.lower() in ['exit', 'quit', 'bye']
IsExitCommand(line) == Lower(line) \in ExitCommands

KnownTool == "get_current_weather"

SystemPrompt == <<"You are a helpful weather assistant. ...">>

FallbackMessage ==
    <<"I'm not sure how to handle that request. Please ask about the weather in a specific location.">>

Separator == Line("main", <<"\n--------------------------------------------------\n">>)

\* lines 134-137
FirstMessages(query) ==
    <<[role |-> "system", content |-> SystemPrompt],
      [role |-> "user", content |-> query]>>

\* lines 168-181
SecondMessages(query, msg, text) ==
    FirstMessages(query) \o
    <<[role |-> "assistant", content |-> PyNone, tool_calls |-> msg.tool_calls],
      [role |-> "tool", tool_call_id |-> msg.tool_calls[1].id, content |-> text]>>

\* line 148: a tool_calls of None or [] is false
ToolRequested(msg) == Len(msg.tool_calls) > 0

\* DecidingToolCall taking the last tool call of the response
DecidingToolCall_Last(msg) == msg.tool_calls[Len(msg.tool_calls)]

\* line 150: the tool call that decides the turn
DecidingToolCall(msg) == msg.tool_calls[1]

\* line 151
IsKnownTool(tool_call) == tool_call.name = KnownTool

\* line 157: get_current_weather(**args) binds exactly the keyword location
CallBinds(a) == DOMAIN a = {"location"}

\* line 157: the TypeError of a call that does not bind. An unexpected keyword
\* is reported before a missing argument; of several unexpected keywords
\* Python names the first in the order of the dict, given here by keys.
CallError(a, keys) ==
    LET unexpected == SelectSeq(keys, LAMBDA k : k # "location") IN
    IF Len(unexpected) > 0
    THEN Exc("TypeError", <<"get_current_weather() got an unexpected keyword argument '",
                            unexpected[1], "'">>)
    ELSE Exc("TypeError",
             <<"get_current_weather() missing 1 required positional argument: 'location'">>)

\* line 153: args.get on a value that is not a dict
NoGetAttribute(type) == Exc("AttributeError", <<"'", type, "' object has no attribute 'get'">>)

\* DirectAnswer printing the canned reply
DirectAnswer_Fallback(msg) == FallbackMessage

\* line 196: the answer of a response without tool call
DirectAnswer(msg) == msg.content

\* print("\nAnswer:"); print(text)
AnswerLines(text) == <<Line("main", <<"\nAnswer:">>), Line("main", text)>>

\* lines 198-200
FailureNotice(e) ==
    <<Line("main", <<"\nAn error occurred: ">> \o e.msg),
      Line("main", <<"Please try again with a different question.">>)>>

\* lines 160-163: the diagnostic the loop prints for an error payload
AfterLookup(text, out) ==
    LET weather_json == json_loads(text) IN
    IF "error" \in DOMAIN weather_json
    THEN out \o <<Line("main", <<"Error: ">> \o Get(weather_json, "message", <<"Unknown error">>))>>
    ELSE out

\* the state the loop is left in by a stretch of the try block
Step(p, a, loc, out, failed) ==
    [pc |-> p, args |-> a, location |-> loc, stdout |-> out, failed |-> failed]

\* TurnFails retrying the first chat request in the same iteration
TurnFails_Retry(e, a, loc, out) ==
    Step("llm1", a, loc, out \o FailureNotice(e) \o <<Separator>>, TRUE)

\* TurnFails leaving the loop
TurnFails_Break(e, a, loc, out) ==
    Step("terminated", a, loc, out \o FailureNotice(e), TRUE)

\* lines 198-202: the except clause, then the separator
TurnFails(e, a, loc, out) ==
    Step("input", a, loc, out \o FailureNotice(e) \o <<Separator>>, TRUE)

\* line 202 after a turn that did not raise
TurnEnds(a, loc, out) == Step("input", a, loc, out \o <<Separator>>, FALSE)

\* lines 144-157: from the first response to the call of get_current_weather
Decide(msg, a0, loc0, out0) ==
    LET out1 == out0 \o <<Line("main", <<"\nProcessing your question...">>)>> IN
    IF ~ToolRequested(msg)
    THEN TurnEnds(a0, loc0, out1 \o AnswerLines(DirectAnswer(msg)))
    ELSE LET tool_call == DecidingToolCall(msg) IN
         IF ~IsKnownTool(tool_call)
         THEN TurnEnds(a0, loc0, out1 \o AnswerLines(FallbackMessage))
         ELSE IF json_loads_raises(tool_call.arguments)
         THEN TurnFails(json_loads_error(tool_call.arguments), a0, loc0, out1)
         ELSE LET a == json_loads(tool_call.arguments) IN
              IF tool_call.arguments.type # "dict"
              THEN TurnFails(NoGetAttribute(tool_call.arguments.type), a, loc0, out1)
              ELSE LET loc == Get(a, "location", <<>>)
                       out2 == out1 \o <<Line("main", <<"Getting weather for: ">> \o loc)>>
                   IN  IF ~CallBinds(a)
                       THEN TurnFails(CallError(a, tool_call.arguments.keys), a, loc, out2)
                       ELSE Step("geocode", a, loc, out2, FALSE)

-----------------------------------------------------------------------------
(* Inputs *)

InputLines ==
    { <<"e", "x", "i", "t">>,
      <<"E", "x", "i", "t">>,
      <<"Q", "U", "I", "T">>,
      <<"b", "y", "E">>,
      <<" ", "e", "x", "i", "t", " ">>,
      <<>>,
      <<"P", "a", "r", "i", "s", "?">> }

Paris == <<"Paris">>
Nowhere == <<"Zzyzxqqq123">>

\* the text of a JSON object with the keys in the given order
ObjectText(keys, d) == [wellformed |-> TRUE, type |-> "dict", value |-> d, keys |-> keys]

\* the empty text
MalformedText == [wellformed |-> FALSE, type |-> "none", value |-> <<>>,
                  error |-> <<"Expecting value: line 1 column 1 (char 0)">>]
\* the text {location: Paris}
UnquotedText == [wellformed |-> FALSE, type |-> "none", value |-> <<>>,
                 error |-> <<"Expecting property name enclosed in double quotes: line 1 column 2 (char 1)">>]
\* the text "Paris"
StringText == [wellformed |-> TRUE, type |-> "str", value |-> PyStr(<<"Paris">>)]
ListText == [wellformed |-> TRUE, type |-> "list", value |-> [type |-> "list", v |-> <<1>>]]

ToolCall(id, name, arguments) == [id |-> id, name |-> name, arguments |-> arguments]

Message(content, tool_calls) == [content |-> content, tool_calls |-> tool_calls]

Replies(msg) == [raises |-> FALSE, message |-> msg, exc |-> Exc("none", <<>>)]
Fails(e) == [raises |-> TRUE, message |-> Message(<<>>, <<>>), exc |-> e]

LLM1Scenarios ==
    {"raise", "text", "weather", "weather_nowhere", "weather_then_other",
     "other_then_weather", "other", "malformed_args", "unquoted_args",
     "list_args", "string_args", "empty_args", "extra_args", "unit_args",
     "lang_unit_args", "unit_lang_args"}

LLM1Response(s) ==
    CASE s = "raise" -> Fails(Exc("APIConnectionError", <<"Connection error.">>))
      [] s = "text" -> Replies(Message(<<"I can only answer questions about current weather.">>, <<>>))
      [] s = "weather" ->
            Replies(Message(<<>>, <<ToolCall("call_1", KnownTool, ObjectText(<<"location">>, [location |-> Paris]))>>))
      [] s = "weather_nowhere" ->
            Replies(Message(<<"Let me check.">>,
                            <<ToolCall("call_1", KnownTool, ObjectText(<<"location">>, [location |-> Nowhere]))>>))
      [] s = "weather_then_other" ->
            Replies(Message(<<>>, <<ToolCall("call_1", KnownTool, ObjectText(<<"location">>, [location |-> Paris])),
                                    ToolCall("call_2", "get_forecast", MalformedText)>>))
      [] s = "other_then_weather" ->
            Replies(Message(<<>>, <<ToolCall("call_1", "get_forecast", ObjectText(<<"location">>, [location |-> Paris])),
                                    ToolCall("call_2", KnownTool, ObjectText(<<"location">>, [location |-> Paris]))>>))
      [] s = "other" ->
            Replies(Message(<<"direct text">>, <<ToolCall("call_1", "get_forecast", MalformedText)>>))
      [] s = "malformed_args" ->
            Replies(Message(<<>>, <<ToolCall("call_1", KnownTool, MalformedText)>>))
      [] s = "unquoted_args" ->
            Replies(Message(<<>>, <<ToolCall("call_1", KnownTool, UnquotedText)>>))
      [] s = "string_args" ->
            Replies(Message(<<>>, <<ToolCall("call_1", KnownTool, StringText)>>))
      [] s = "unit_args" ->
            Replies(Message(<<>>, <<ToolCall("call_1", KnownTool, ObjectText(<<"unit">>, [unit |-> <<"C">>]))>>))
      [] s = "list_args" ->
            Replies(Message(<<>>, <<ToolCall("call_1", KnownTool, ListText)>>))
      [] s = "empty_args" ->
            Replies(Message(<<>>, <<ToolCall("call_1", KnownTool, ObjectText(<<>>, <<>>))>>))
      [] s = "extra_args" ->
            Replies(Message(<<>>, <<ToolCall("call_1", KnownTool,
                                             ObjectText(<<"location", "unit">>,
                                                        [location |-> Paris, unit |-> <<"C">>]))>>))
      [] s = "lang_unit_args" ->
            Replies(Message(<<>>, <<ToolCall("call_1", KnownTool,
                                             ObjectText(<<"lang", "unit">>,
                                                        [lang |-> <<"fr">>, unit |-> <<"C">>]))>>))
      [] s = "unit_lang_args" ->
            Replies(Message(<<>>, <<ToolCall("call_1", KnownTool,
                                             ObjectText(<<"unit", "location", "lang">>,
                                                        [location |-> Paris, lang |-> <<"fr">>,
                                                         unit |-> <<"C">>]))>>))

LLM2Scenarios == {"raise", "relay", "report"}

LLM2Response(s) ==
    CASE s = "raise" -> Fails(Exc("RateLimitError", <<"Rate limit reached">>))
      [] s = "relay" -> Replies(Message(<<"I could not fetch the weather for that location.">>, <<>>))
      [] s = "report" -> Replies(Message(<<"It is 21 degrees with clear sky.">>, <<>>))

Body(type, v) == [raises |-> FALSE, json |-> [type |-> type, v |-> v], exc |-> Exc("none", <<>>)]
Dict(d) == [raises |-> FALSE, json |-> d, exc |-> Exc("none", <<>>)]
NoResponse(e) == [raises |-> TRUE, json |-> <<>>, exc |-> e]

\* an element of the geocoder's list
Item(type, v) == [type |-> type, v |-> v]

GeoScenarios ==
    {"raise", "not_json", "empty", "empty_object", "null", "zero", "text", "number",
     "error_object", "found", "no_lat", "no_lon", "null_item", "number_item",
     "text_item", "list_item"}

GeoResponse(s) ==
    CASE s = "raise" -> NoResponse(Exc("ConnectionError", <<"Failed to establish a new connection">>))
      [] s = "not_json" ->
            NoResponse(Exc("requests.exceptions.JSONDecodeError",
                           <<"Expecting value: line 1 column 1 (char 0)">>))
      [] s = "null" -> Body("NoneType", <<>>)
      [] s = "zero" -> Body("int", 0)
      [] s = "text" -> Body("str", <<"Not Found">>)
      [] s = "number" -> Body("float", 5)
      [] s = "empty" -> Body("list", <<>>)
      [] s = "empty_object" -> Body("dict", <<>>)
      [] s = "error_object" -> Body("dict", [cod |-> PyInt(401), message |-> <<"Invalid API key.">>])
      [] s = "found" -> Body("list", <<Item("dict", [name |-> <<"Paris">>, lat |-> 48, lon |-> 2])>>)
      [] s = "no_lat" -> Body("list", <<Item("dict", [name |-> <<"Paris">>, lon |-> 2])>>)
      [] s = "no_lon" -> Body("list", <<Item("dict", [name |-> <<"Paris">>, lat |-> 48])>>)
      [] s = "null_item" -> Body("list", <<PyNone>>)
      [] s = "number_item" -> Body("list", <<PyInt(5)>>)
      [] s = "text_item" -> Body("list", <<PyStr(<<"x">>)>>)
      [] s = "list_item" -> Body("list", <<Item("list", <<PyInt(1)>>)>>)

Conditions ==
    [main |-> [temp |-> 21, feels_like |-> 20, humidity |-> 40],
     wind |-> [speed |-> 3],
     weather |-> <<[description |-> <<"clear sky">>]>>]

WeatherScenarios ==
    {"raise", "http_error", "ok", "cod_float_200", "cod_str_404", "cod_int_401", "cod_str_200", "cod_429_no_message",
     "no_cod", "no_main", "no_humidity", "no_wind", "empty_weather", "no_description"}

WeatherResponse(s) ==
    CASE s = "raise" -> NoResponse(Exc("ReadTimeout", <<"Read timed out.">>))
      [] s = "http_error" -> NoResponse(Exc("HTTPError", <<"502 Server Error">>))
      [] s = "cod_float_200" -> Dict([cod |-> PyFloat(200)] @@ Conditions)
      [] s = "ok" -> Dict([cod |-> PyInt(200)] @@ Conditions)
      [] s = "cod_str_404" -> Dict([cod |-> PyStr(<<"404">>), message |-> <<"city not found">>])
      [] s = "cod_int_401" -> Dict([cod |-> PyInt(401), message |-> <<"Invalid API key.">>])
      [] s = "cod_str_200" -> Dict([cod |-> PyStr(<<"200">>), message |-> <<"ok">>] @@ Conditions)
      [] s = "cod_429_no_message" -> Dict([cod |-> PyInt(429)])
      [] s = "no_cod" -> Dict(Conditions)
      [] s = "no_main" -> Dict([cod |-> PyInt(200), wind |-> Conditions.wind, weather |-> Conditions.weather])
      [] s = "no_humidity" ->
            Dict([cod |-> PyInt(200), main |-> [temp |-> 21, feels_like |-> 20],
                  wind |-> Conditions.wind, weather |-> Conditions.weather])
      [] s = "no_wind" -> Dict([cod |-> PyInt(200), main |-> Conditions.main, weather |-> Conditions.weather])
      [] s = "empty_weather" ->
            Dict([cod |-> PyInt(200), main |-> Conditions.main, wind |-> Conditions.wind, weather |-> <<>>])
      [] s = "no_description" ->
            Dict([cod |-> PyInt(200), main |-> Conditions.main, wind |-> Conditions.wind,
                  weather |-> <<[id |-> 800]>>])

-----------------------------------------------------------------------------
(* State machine *)

\* a name the script has not bound yet; the code reads no name before binding it
Unbound == <<>>

\* lines 110-112
Banner ==
    <<Line("main", <<"Weather Information Assistant">>),
      Line("main", <<"-----------------------------">>),
      Line("main", <<"Ask about weather in any location, or type 'exit' to quit.\n">>)>>

Init ==
    /\ pc = "input"
    /\ user_query = Unbound
    /\ groq_response = Unbound
    /\ args = Unbound
    /\ location = Unbound
    /\ geo_data = Unbound
    /\ coords = Unbound
    /\ lookup_weather_data = Unbound
    /\ weather_data = Unbound
    /\ second_response = Unbound
    /\ calls = <<>>
    /\ llm_messages = <<>>
    /\ stdout = Banner
    /\ turns = 0
    /\ fail_streak = 0

\* lines 115-119: input(), then the exit test
ReadInput(line) ==
    /\ pc = "input"
    /\ turns < MaxTurns
    /\ turns' = turns + 1
    /\ user_query' = line
    /\ calls' = <<>>
    /\ IF IsExitCommand(line)
       THEN /\ stdout' = <<Line("main", <<"Goodbye!">>)>>
            /\ pc' = "terminated"
       ELSE /\ stdout' = <<>>
            /\ pc' = "llm1"
    /\ UNCHANGED <<groq_response, args, location, frame, weather_data,
                   second_response, llm_messages, fail_streak>>

\* the loop takes the state a stretch of the try block leaves
Takes(step) ==
    /\ pc' = step.pc
    /\ args' = step.args
    /\ location' = step.location
    /\ stdout' = step.stdout
    /\ fail_streak' = IF step.failed THEN fail_streak + 1
                      ELSE IF step.pc = "input" THEN 0 ELSE fail_streak

\* line 20: a call of get_current_weather starts with no local bound
EntersLookup ==
    /\ geo_data' = Unbound
    /\ coords' = Unbound
    /\ lookup_weather_data' = Unbound

\* lines 132-157 and 189-202: the first chat request and the decision on its response
FirstLLM(resp) ==
    /\ pc = "llm1"
    /\ calls' = Append(calls, "llm1")
    /\ llm_messages' = FirstMessages(user_query)
    /\ IF resp.raises
       THEN /\ Takes(TurnFails(resp.exc, args, location, stdout))
            /\ UNCHANGED <<groq_response, frame>>
       ELSE /\ groq_response' = resp.message
            /\ Takes(Decide(resp.message, args, location, stdout))
            /\ IF Decide(resp.message, args, location, stdout).pc = "geocode"
               THEN EntersLookup
               ELSE UNCHANGED frame
    /\ UNCHANGED <<user_query, weather_data, second_response, turns>>

\* LookupEnds treating an error payload as a failure of the turn
LookupEnds_ErrorsFatal(res) ==
    IF res.kind = "return" /\ "error" \notin DOMAIN res.payload
    THEN /\ weather_data' = json_dumps(res.payload)
         /\ Takes(Step("llm2", args, location,
                       AfterLookup(json_dumps(res.payload), stdout \o res.log), FALSE))
    ELSE /\ Takes(TurnFails(Exc("RuntimeError", <<"lookup failed">>), args, location, stdout))
         /\ UNCHANGED weather_data

\* the lookup hands its outcome to the loop: lines 157-163
LookupEnds(res) ==
    IF res.kind = "return"
    THEN /\ weather_data' = json_dumps(res.payload)
         /\ Takes(Step("llm2", args, location,
                       AfterLookup(json_dumps(res.payload), stdout \o res.log), FALSE))
    ELSE /\ Takes(TurnFails(res.exc, args, location, stdout))
         /\ UNCHANGED weather_data

\* lines 27-38: the geocoding request
Geocode(resp) ==
    /\ pc = "geocode"
    /\ calls' = Append(calls, "geocode")
    /\ geo_data' = IF resp.raises THEN geo_data ELSE resp.json
    /\ LET res == Try(GeoBody(location, resp)) IN
       IF res.kind = "continue"
       THEN /\ coords' = [lat |-> res.lat, lon |-> res.lon]
            /\ pc' = "weather"
            /\ UNCHANGED <<args, location, stdout, fail_streak, weather_data>>
       ELSE /\ LookupEnds(res)
            /\ UNCHANGED coords
    /\ UNCHANGED <<user_query, groq_response, lookup_weather_data, second_response,
                   llm_messages, turns>>

\* lines 41-67: the current-weather request
Weather(resp) ==
    /\ pc = "weather"
    /\ calls' = Append(calls, "weather")
    /\ lookup_weather_data' = IF resp.raises THEN lookup_weather_data ELSE resp.json
    /\ LookupEnds(Try(WeatherBody(location, resp)))
    /\ UNCHANGED <<user_query, groq_response, geo_data, coords, second_response,
                   llm_messages, turns>>

\* lines 166-188 and 198-202: the second chat request and the answer
SecondLLM(resp) ==
    /\ pc = "llm2"
    /\ calls' = Append(calls, "llm2")
    /\ llm_messages' = SecondMessages(user_query, groq_response, weather_data)
    /\ IF resp.raises
       THEN /\ Takes(TurnFails(resp.exc, args, location, stdout))
            /\ UNCHANGED second_response
       ELSE /\ second_response' = resp.message
            /\ Takes(TurnEnds(args, location, stdout \o AnswerLines(resp.message.content)))
    /\ UNCHANGED <<user_query, groq_response, frame, weather_data, turns>>

Next ==
    \/ \E line \in InputLines : ReadInput(line)
    \/ \E s \in LLM1Scenarios : FirstLLM(LLM1Response(s))
    \/ \E s \in GeoScenarios : Geocode(GeoResponse(s))
    \/ \E s \in WeatherScenarios : Weather(WeatherResponse(s))
    \/ \E s \in LLM2Scenarios : SecondLLM(LLM2Response(s))

Spec == Init /\ [][Next]_vars

-----------------------------------------------------------------------------
(* Properties *)

InCalls(c) == \E i \in DOMAIN calls : calls[i] = c

HasLine(text) == \E i \in DOMAIN stdout : stdout[i].text = text

\* the iteration printed the failure notice of the except clause
Failed == HasLine(<<"Please try again with a different question.">>)

\* the last n lines printed
LastLines(n) == SubSeq(stdout, Len(stdout) - n + 1, Len(stdout))

\* lines printed by get_current_weather in this iteration
LookupLineCount == Cardinality({i \in DOMAIN stdout : stdout[i].by = "get_current_weather"})

\* the call of get_current_weather of this iteration is over
LookupEnded == InCalls("geocode") /\ pc # "weather"

\* the call handed a value back to the loop
LookupReturned == pc = "llm2" \/ InCalls("llm2")

\* the first chat request of this iteration got a response
ResponseObtained == InCalls("llm1") /\ HasLine(<<"\nProcessing your question...">>)

IsWeatherResult(p) == DOMAIN p = {"location", "current"}
IsLookupError(p) == "error" \in DOMAIN p

ProcessingLine == [by |-> "main", text |-> <<"\nProcessing your question...">>]
AnswerHeader == [by |-> "main", text |-> <<"\nAnswer:">>]

\* C1: a call of get_current_weather never raises and returns exactly one
\* payload, which is either a WeatherResult (keys location and current, no
\* error key) or a LookupError (has an error key), never both, never neither.
LookupReturnsOnePayload ==
    LookupEnded =>
        /\ LookupReturned
        /\ weather_data.wellformed
        /\ weather_data.type = "dict"
        /\ IsWeatherResult(weather_data.value) # IsLookupError(weather_data.value)

LookupCaughtUnexpected ==
    /\ LookupEnded
    /\ LookupReturned
    /\ IsLookupError(weather_data.value)
    /\ weather_data.value.error = <<"Unexpected error">>

\* C2: when the geocoder answers with an empty list, the lookup returns the
\* NotFound payload and the weather request is not issued in that call.
NoMatchSkipsWeather ==
    (InCalls("geocode") /\ geo_data # Unbound /\ geo_data.type = "list" /\ Len(geo_data.v) = 0) =>
        /\ ~InCalls("weather")
        /\ pc # "weather"
        /\ LookupReturned
        /\ weather_data.value = [error |-> <<"Location '">> \o location \o <<"' not found">>]

NoMatchAnswered ==
    /\ InCalls("geocode") /\ geo_data # Unbound /\ geo_data.type = "list" /\ Len(geo_data.v) = 0
    /\ location = <<"Zzyzxqqq123">>
    /\ calls = <<"llm1", "geocode", "llm2">>

\* C3: when the weather payload's embedded cod is not the success value, the
\* lookup returns a ProviderError whose status_code is that cod and whose
\* message is the provider's message, never a WeatherResult; a WeatherResult
\* is returned only for the success value.
ProviderStatusRelayed ==
    (LookupEnded /\ InCalls("weather") /\ lookup_weather_data # Unbound) =>
        LET wd == lookup_weather_data
            cod == IF "cod" \in DOMAIN wd THEN wd.cod ELSE [type |-> "NoneType", v |-> <<>>]
            success == cod.type \in {"int", "float"} /\ cod.v = 200
            p == weather_data.value
        IN  /\ LookupReturned
            /\ ~success =>
                  /\ ~IsWeatherResult(p)
                  /\ IsLookupError(p)
                  /\ p.error = <<"Weather API error">>
                  /\ p.status_code.type = cod.type
                  /\ p.status_code.v = cod.v
                  /\ "message" \in DOMAIN wd => p.message = wd.message
            /\ IsWeatherResult(p) => success

ProviderErrorReturned ==
    /\ LookupEnded /\ InCalls("weather") /\ lookup_weather_data # Unbound
    /\ "cod" \in DOMAIN lookup_weather_data
    /\ lookup_weather_data.cod.type = "str"
    /\ weather_data.value.status_code = [type |-> "str", v |-> <<"404">>]
    /\ weather_data.value.message = <<"city not found">>

Rank(c) == CASE c = "llm1" -> 1 [] c = "geocode" -> 2 [] c = "weather" -> 3 [] c = "llm2" -> 4

\* C4: in every iteration at most two chat requests and at most one geocode
\* and one weather request are issued, in the order first chat request,
\* geocode, weather, second chat request; the weather request follows the
\* geocoder's response and the second chat request follows the lookup's return.
CallsSequential ==
    /\ \A i, j \in DOMAIN calls : i < j => Rank(calls[i]) < Rank(calls[j])
    /\ Len(calls) > 0 => calls[1] = "llm1"
    /\ (pc = "weather" \/ InCalls("weather")) =>
          InCalls("geocode") /\ geo_data # Unbound /\ coords # Unbound
    /\ InCalls("llm2") =>
          /\ InCalls("geocode")
          /\ weather_data # Unbound
          /\ llm_messages[4].content = weather_data

AllFourCalls == calls = <<"llm1", "geocode", "weather", "llm2">>

\* C5: when the first response has no tool call, the iteration prints that
\* response's content as the answer and ends; no lookup, no geocode or
\* weather request and no second chat request is made.
DirectAnswerOnly ==
    (ResponseObtained /\ Len(groq_response.tool_calls) = 0) =>
        /\ pc = "input"
        /\ calls = <<"llm1">>
        /\ stdout = <<ProcessingLine, AnswerHeader,
                      [by |-> "main", text |-> groq_response.content], Separator>>

DirectAnswerPrinted ==
    /\ ResponseObtained
    /\ Len(groq_response.tool_calls) = 0
    /\ HasLine(<<"I can only answer questions about current weather.">>)

\* C6: when the known tool is requested and the lookup returns an error
\* payload, the error does not fail the iteration: the second chat request is
\* issued with the returned text as the content of its tool message, the
\* answer printed is the content of the second response, and the failure
\* notice appears only if the second chat request itself raised.
LookupErrorIsRelayed ==
    /\ (LookupEnded /\ LookupReturned /\ IsLookupError(weather_data.value)) =>
          /\ InCalls("llm2") =>
                /\ Len(llm_messages) = 4
                /\ llm_messages[4].role = "tool"
                /\ llm_messages[4].content = weather_data
          /\ (pc = "input" /\ ~Failed) =>
                LastLines(3) = <<AnswerHeader,
                                 [by |-> "main", text |-> second_response.content], Separator>>
    /\ (LookupEnded /\ pc = "input") => InCalls("llm2")
    /\ (LookupEnded /\ Failed) => InCalls("llm2")

NotFoundRelayed ==
    /\ LookupEnded /\ LookupReturned /\ pc = "input" /\ ~Failed
    /\ weather_data.value = [error |-> <<"Location '", "Zzyzxqqq123", "' not found">>]
    /\ HasLine(<<"I could not fetch the weather for that location.">>)

\* the tool call of msg raises before or at the call of get_current_weather
ArgumentsRaise(msg) ==
    /\ Len(msg.tool_calls) > 0
    /\ msg.tool_calls[1].name = "get_current_weather"
    /\ \/ ~msg.tool_calls[1].arguments.wellformed
       \/ msg.tool_calls[1].arguments.type # "dict"
       \/ DOMAIN msg.tool_calls[1].arguments.value # {"location"}

\* a step in which a chat request, the argument parsing or the lookup invocation raises
RaisingStep ==
    \/ \E s \in LLM1Scenarios :
          /\ LLM1Response(s).raises \/ ArgumentsRaise(LLM1Response(s).message)
          /\ FirstLLM(LLM1Response(s))
    \/ \E s \in LLM2Scenarios :
          /\ LLM2Response(s).raises
          /\ SecondLLM(LLM2Response(s))

\* C7: an exception in the first chat request, the argument parsing, the
\* lookup invocation or the second chat request ends the iteration with the
\* failure notice and no answer, leaves the loop running at the prompt, and
\* the next query starts with messages built from that query alone, however
\* many iterations failed before.
FailureEndsOnlyTheTurn ==
    [][ /\ RaisingStep =>
              /\ pc' = "input"
              /\ fail_streak' = fail_streak + 1
              /\ Len(stdout') >= 3
              /\ SubSeq(stdout', Len(stdout') - 2, Len(stdout'))[1].text[1] = "\nAn error occurred: "
              /\ SubSeq(stdout', Len(stdout') - 1, Len(stdout')) =
                    <<[by |-> "main", text |-> <<"Please try again with a different question.">>],
                      Separator>>
              /\ \A i \in DOMAIN stdout' : stdout'[i] # AnswerHeader
        /\ (pc = "input" /\ pc' # "input" /\ user_query' \notin ExitCommands
               /\ Lower(user_query') \notin ExitCommands) =>
              /\ pc' = "llm1"
              /\ calls' = <<>>
        /\ (pc = "llm1" /\ pc' # "llm1") =>
              llm_messages' = <<[role |-> "system", content |-> SystemPrompt],
                                [role |-> "user", content |-> user_query]>>
      ]_vars

QueryAfterTwoFailures == fail_streak >= 2 /\ pc = "llm1"

UpperOf == [b |-> "B", e |-> "E", i |-> "I", q |-> "Q", t |-> "T", u |-> "U",
            x |-> "X", y |-> "Y"]

\* line is one of exit, quit, bye up to the case of its letters
ExitSpelling(line) ==
    \E cmd \in {<<"e", "x", "i", "t">>, <<"q", "u", "i", "t">>, <<"b", "y", "e">>} :
        /\ Len(line) = Len(cmd)
        /\ \A i \in 1..Len(cmd) : line[i] = cmd[i] \/ line[i] = UpperOf[cmd[i]]

\* C8: an input line equal to exit, quit or bye up to case prints the farewell
\* and ends the loop in that iteration with no chat request and no lookup;
\* every other line, also one with surrounding whitespace, is a query and
\* leads to the first chat request.
ExitCommandsOnlyTerminate ==
    turns > 0 =>
        IF ExitSpelling(user_query)
        THEN /\ pc = "terminated"
             /\ calls = <<>>
             /\ stdout = <<[by |-> "main", text |-> <<"Goodbye!">>]>>
        ELSE /\ pc # "terminated"
             /\ pc = "llm1" \/ (Len(calls) > 0 /\ calls[1] = "llm1")

QuitInCapitals == pc = "terminated" /\ user_query = <<"Q", "U", "I", "T">>

\* C9 as stated: every lookup that ends in a failure prints exactly one
\* diagnostic line from within the lookup, for each failure kind.
EveryFailureLogsOnce ==
    (LookupEnded /\ LookupReturned /\ IsLookupError(weather_data.value)) => LookupLineCount = 1

\* C9 amended: a lookup that ends in ProviderError, NetworkError, DataError
\* or UnexpectedError prints exactly one diagnostic line from within the
\* lookup; a lookup that ends in NotFound prints none.
FailureLogsByKind ==
    (LookupEnded /\ LookupReturned /\ IsLookupError(weather_data.value)) =>
        IF DOMAIN weather_data.value = {"error"}
        THEN LookupLineCount = 0
        ELSE /\ weather_data.value.error \in
                   {<<"Weather API error">>, <<"Network error">>,
                    <<"Data parsing error">>, <<"Unexpected error">>}
             /\ LookupLineCount = 1

ProviderErrorLogged ==
    /\ LookupEnded /\ LookupReturned /\ IsLookupError(weather_data.value)
    /\ DOMAIN weather_data.value # {"error"}
    /\ weather_data.value.error = <<"Weather API error">>
    /\ LookupLineCount = 1

\* C10: when the first tool call of the first response names another function
\* than get_current_weather, the iteration prints the static fallback message
\* as the answer and ends: the arguments are not parsed, no lookup, no geocode
\* or weather request and no second chat request is made, whatever further
\* tool calls the response lists.
UnknownToolFallsBack ==
    (ResponseObtained /\ Len(groq_response.tool_calls) > 0
        /\ groq_response.tool_calls[1].name # "get_current_weather") =>
        /\ pc = "input"
        /\ calls = <<"llm1">>
        /\ stdout = <<ProcessingLine, AnswerHeader,
                      [by |-> "main",
                       text |-> <<"I'm not sure how to handle that request. Please ask about the weather in a specific location.">>],
                      Separator>>

UnknownToolBeforeKnown ==
    /\ ResponseObtained
    /\ Len(groq_response.tool_calls) = 2
    /\ groq_response.tool_calls[1].name = "get_forecast"
    /\ groq_response.tool_calls[2].name = "get_current_weather"
    /\ pc = "input"

====
